---- MODULE Spec2Model ----
(***************************************************************************)
(* The scrynk.io client: the Landing, Extract, Results and Status pages,   *)
(* the router location they share, the two HTTP calls (POST /extract/ and  *)
(* GET /download/) and the handlers that resume when a response arrives.   *)
(*                                                                         *)
(* One action is one event-loop task: a click or keystroke handler, a page *)
(* load, or the resumption of an async handler after its awaits.  The two  *)
(* awaits of handleSubmit (fetch, response.json) and of handleDownload     *)
(* (fetch, response.blob) touch no state between them, so each resumption  *)
(* is one step taken when the last await settles.                          *)
(*                                                                         *)
(* React and the router are modelled by what they do to this code: a page  *)
(* component's useState cells exist only while its route is displayed and  *)
(* start from their initial values at every mount; a state setter called   *)
(* for an instance that is no longer mounted changes nothing; navigate and *)
(* toast keep working after the component that obtained them is gone;      *)
(* navigate called while a component renders for the first time is inert   *)
(* in the router releases that provide useNavigate.                        *)
(***************************************************************************)
EXTENDS Integers, Sequences, FiniteSets, TLC

\* Total number of HTTP requests issued in one behaviour.
MaxRequests == 3

\* Values a user can type into the three inputs.
EmailValues == {"", "me@x.com"}
PasswordValues == {"", "pw"}
UrlValues == {"", "https://p/1", "https://p/2"}

\* The emails arrays a response body can carry.
EmailLists == {<< >>, <<"a@x.com", "b@y.com">>, <<"b@y.com", "a@x.com">>}

\* JSON objects the extraction endpoint can answer with: with or without
\* an emails key.
JsonBodies == {[emails |-> l] : l \in EmailLists} \cup {[detail |-> "done"]}

\* What the two awaits of handleSubmit can settle to: fetch rejects (net
\* FALSE), a non-2xx status (ok FALSE), a 2xx status whose body is not
\* JSON (json FALSE), or a 2xx status with a JSON object.
ExtractResponses ==
    {[net |-> FALSE, ok |-> FALSE, json |-> FALSE, body |-> [detail |-> "none"]],
     [net |-> TRUE, ok |-> FALSE, json |-> TRUE, body |-> [detail |-> "error"]],
     [net |-> TRUE, ok |-> TRUE, json |-> FALSE, body |-> [detail |-> "none"]]}
    \cup {[net |-> TRUE, ok |-> TRUE, json |-> TRUE, body |-> b] : b \in JsonBodies}

\* What the awaits of handleDownload can settle to.
DownloadResponses ==
    {[net |-> FALSE, ok |-> FALSE], [net |-> TRUE, ok |-> FALSE],
     [net |-> TRUE, ok |-> TRUE]}

Routes == {"/", "/extract", "/results", "/status"}
Fields == {"email", "password", "postUrl"}
Formats == {"csv", "txt"}

FieldValues(field) ==
    CASE field = "email" -> EmailValues
      [] field = "password" -> PasswordValues
      [] OTHER -> UrlValues

VARIABLES
    route,          \* location.pathname
    navState,       \* location.state: << >> (null) or <<ResultsState>>
    formData,       \* Extract: useState formData
    isLoading,      \* Extract: useState isLoading
    emails,         \* Extract: useState emails
    pendingExtract, \* extraction requests in flight
    pendingDownload,\* download requests in flight
    issued,         \* number of requests issued so far
    toasts,         \* number of error notifications raised so far
    saved,          \* file names handed to the browser's save mechanism
    docElements,    \* anchor elements attached to document.body
    lastEvent       \* the task that ran last, with its request and response

vars == <<route, navState, formData, isLoading, emails, pendingExtract,
          pendingDownload, issued, toasts, saved, docElements, lastEvent>>

----------------------------------------------------------------------------
\* Extract: component state

InitialFormData == [email |-> "", password |-> "", postUrl |-> ""]

\* formData.email && formData.password && formData.postUrl
isFormValid_NoUrl == formData.email # "" /\ formData.password # ""
isFormValid ==
    formData.email # "" /\ formData.password # "" /\ formData.postUrl # ""

\* disabled={isLoading} on the three inputs
InputsDisabled == isLoading

\* disabled={!isFormValid || isLoading} on the submit button
SubmitDisabled == ~isFormValid \/ isLoading

\* {emails.length > 0 && (...download buttons...)} in Extract; the buttons
\* of Status are rendered unconditionally.
DownloadControls(view) ==
    CASE view = "/extract" -> route = "/extract" /\ Len(emails) > 0
      [] view = "/status" -> route = "/status"
      [] OTHER -> FALSE

\* JSON.stringify({email, password, post_url: formData.postUrl})
RequestBody(fd) ==
    [email |-> fd.email, password |-> fd.password, post_url |-> fd.postUrl]

\* The requests of a component instance that has been unmounted: their
\* handlers still run, their state setters no longer reach a component.
Orphaned(reqs) == {[r EXCEPT !.live = FALSE] : r \in reqs}

\* The Extract requests after the location changes from one path to
\* another: the instance survives only a navigation from /extract to itself.
PendingAfterNavigate(from, to, reqs) ==
    IF from = "/extract" /\ to = "/extract" THEN reqs ELSE Orphaned(reqs)

\* The useState cells of Extract at mount.
ExtractInitial ==
    [formData |-> InitialFormData, isLoading |-> FALSE, emails |-> << >>]

\* The useState cells of Extract after the location changes: st when the
\* same instance stays mounted, the initial cells otherwise (a fresh mount
\* on arriving at /extract, nothing displayed elsewhere).
StateAfterNavigate(from, to, st) ==
    IF from = "/extract" /\ to = "/extract" THEN st ELSE ExtractInitial

Event(op, req, resp) == [op |-> op, req |-> req, resp |-> resp]

----------------------------------------------------------------------------
\* handleSubmit, after its awaits

\* fetch rejected, !response.ok, or response.json() rejected
SubmitThrows(resp) == ~resp.net \/ ~resp.ok \/ ~resp.json

\* result.emails || []
EmailsOrEmpty(result) ==
    IF "emails" \in DOMAIN result THEN result.emails ELSE << >>

\* The state passed to navigate('/results', {state: ...}); formData is the
\* one the handler closed over when the form was submitted.
ResultsState_CurrentForm(req, result) ==
    [emails |-> EmailsOrEmpty(result), postUrl |-> formData.postUrl,
     status |-> "success"]
ResultsState_StatusByCount(req, result) ==
    [emails |-> EmailsOrEmpty(result), postUrl |-> req.closure.postUrl,
     status |-> IF Len(EmailsOrEmpty(result)) > 0 THEN "success" ELSE "failure"]
ResultsState(req, result) ==
    [emails |-> EmailsOrEmpty(result), postUrl |-> req.closure.postUrl,
     status |-> "success"]

\* finally { setIsLoading(false) } as seen by the displayed form
LoadingAfterFinally_Kept(req) == isLoading
LoadingAfterFinally(req) == IF req.live THEN FALSE ELSE isLoading

\* catch: the form's fields after the error toast
FormAfterCatch_Cleared(req) == InitialFormData
FormAfterCatch(req) == formData

----------------------------------------------------------------------------
\* handleDownload, after its awaits

\* fetch rejected or !response.ok
DownloadThrows_Unchecked(resp) == ~resp.net
DownloadThrows(resp) == ~resp.net \/ ~resp.ok

\* format === "csv" ? "emails.csv" : "emails.txt"
DownloadFileName_AlwaysCsv(format) == "emails.csv"
DownloadFileName(format) ==
    IF format = "csv" THEN "emails.csv" ELSE "emails.txt"

\* document.body.appendChild(link); link.click(); link.remove()
ElementsAfterSave(n) == (n + 1) - 1

----------------------------------------------------------------------------
Init ==
    /\ route = "/"
    /\ navState = << >>
    /\ formData = ExtractInitial.formData
    /\ isLoading = ExtractInitial.isLoading
    /\ emails = ExtractInitial.emails
    /\ pendingExtract = {}
    /\ pendingDownload = {}
    /\ issued = 0
    /\ toasts = 0
    /\ saved = << >>
    /\ docElements = 0
    /\ lastEvent = Event("load", << >>, << >>)

\* A button whose handler is navigate(to), with no state.
NavButtons ==
    {<<"/", "/extract">>,
     <<"/extract", "/">>,
     <<"/results", "/extract">>, <<"/results", "/status">>,
     <<"/status", "/">>, <<"/status", "/extract">>}

\* Results renders its buttons only with navigation state in hand.
ButtonRendered(from) == from = "/results" => navState # << >>

navigate(from, to) ==
    /\ route = from
    /\ <<from, to>> \in NavButtons
    /\ ButtonRendered(from)
    /\ route' = to
    /\ navState' = << >>
    /\ LET st == StateAfterNavigate(from, to,
                  [formData |-> formData, isLoading |-> isLoading,
                   emails |-> emails])
       IN /\ formData' = st.formData
          /\ isLoading' = st.isLoading
          /\ emails' = st.emails
    /\ pendingExtract' = PendingAfterNavigate(from, to, pendingExtract)
    /\ lastEvent' = Event("navigate", << >>, << >>)
    /\ UNCHANGED <<pendingDownload, issued, toasts, saved, docElements>>

\* The address bar: the page is loaded afresh at a path, with no
\* navigation state; the previous document and its requests are gone.
\* Loading /results renders Results, whose guard calls navigate('/extract')
\* while rendering and returns null; the router drops a navigate made
\* during a component's first render, so the redirect may not happen.
DirectVisit(path, redirected) ==
    /\ route' = IF path = "/results" /\ redirected THEN "/extract" ELSE path
    /\ navState' = << >>
    /\ formData' = ExtractInitial.formData
    /\ isLoading' = ExtractInitial.isLoading
    /\ emails' = ExtractInitial.emails
    /\ pendingExtract' = {}
    /\ pendingDownload' = {}
    /\ docElements' = 0
    /\ lastEvent' = Event("visit", << >>, << >>)
    /\ UNCHANGED <<issued, toasts, saved>>

handleInputChange(field, value) ==
    /\ route = "/extract"
    /\ ~InputsDisabled
    /\ formData' = [formData EXCEPT ![field] = value]
    /\ lastEvent' = Event("input", << >>, << >>)
    /\ UNCHANGED <<route, navState, isLoading, emails, pendingExtract,
                   pendingDownload, issued, toasts, saved, docElements>>

handleSubmit ==
    /\ route = "/extract"
    /\ ~SubmitDisabled
    /\ issued < MaxRequests
    /\ isLoading' = TRUE
    /\ LET req == [id |-> issued + 1, body |-> RequestBody(formData),
                   closure |-> formData, live |-> TRUE]
       IN /\ pendingExtract' = pendingExtract \cup {req}
          /\ lastEvent' = Event("submit", <<req>>, << >>)
    /\ issued' = issued + 1
    /\ UNCHANGED <<route, navState, formData, emails, pendingDownload,
                   toasts, saved, docElements>>

handleSubmitSettled(req, resp) ==
    /\ req \in pendingExtract
    /\ IF SubmitThrows(resp)
       THEN /\ toasts' = toasts + 1
            /\ formData' = FormAfterCatch(req)
            /\ isLoading' = LoadingAfterFinally(req)
            /\ pendingExtract' = pendingExtract \ {req}
            /\ lastEvent' = Event("extractFailed", <<req>>, <<resp>>)
            /\ UNCHANGED <<route, navState, emails>>
       ELSE \* setEmails(result.emails || []), navigate('/results', ...),
            \* finally setIsLoading(false): the setters reach the form
            \* only if it is the instance that issued the request.
            /\ route' = "/results"
            /\ navState' = <<ResultsState(req, resp.body)>>
            /\ LET set == [formData |-> formData,
                           isLoading |-> LoadingAfterFinally(req),
                           emails |-> IF req.live
                                      THEN EmailsOrEmpty(resp.body)
                                      ELSE emails]
                   st == StateAfterNavigate(route, "/results", set)
               IN /\ formData' = st.formData
                  /\ isLoading' = st.isLoading
                  /\ emails' = st.emails
            /\ pendingExtract' =
                   PendingAfterNavigate(route, "/results", pendingExtract \ {req})
            /\ lastEvent' = Event("extractSucceeded", <<req>>, <<resp>>)
            /\ UNCHANGED toasts
    /\ UNCHANGED <<pendingDownload, issued, saved, docElements>>

handleDownload(view, format) ==
    /\ DownloadControls(view)
    /\ issued < MaxRequests
    /\ LET req == [id |-> issued + 1, format |-> format, view |-> view]
       IN /\ pendingDownload' = pendingDownload \cup {req}
          /\ lastEvent' = Event("download", <<req>>, << >>)
    /\ issued' = issued + 1
    /\ UNCHANGED <<route, navState, formData, isLoading, emails,
                   pendingExtract, toasts, saved, docElements>>

handleDownloadSettled(req, resp) ==
    /\ req \in pendingDownload
    /\ pendingDownload' = pendingDownload \ {req}
    /\ IF DownloadThrows(resp)
       THEN /\ toasts' = toasts + 1
            /\ lastEvent' = Event("downloadFailed", <<req>>, <<resp>>)
            /\ UNCHANGED <<saved, docElements>>
       ELSE /\ saved' = Append(saved, DownloadFileName(req.format))
            /\ docElements' = ElementsAfterSave(docElements)
            /\ lastEvent' = Event("downloadSaved", <<req>>, <<resp>>)
            /\ UNCHANGED toasts
    /\ UNCHANGED <<route, navState, formData, isLoading, emails,
                   pendingExtract, issued>>

Next ==
    \/ \E from \in Routes, to \in Routes : navigate(from, to)
    \/ \E path \in Routes, redirected \in BOOLEAN : DirectVisit(path, redirected)
    \/ \E field \in Fields : \E value \in FieldValues(field) :
           handleInputChange(field, value)
    \/ handleSubmit
    \/ \E req \in pendingExtract, resp \in ExtractResponses :
           handleSubmitSettled(req, resp)
    \/ \E view \in {"/extract", "/status"}, format \in Formats :
           handleDownload(view, format)
    \/ \E req \in pendingDownload, resp \in DownloadResponses :
           handleDownloadSettled(req, resp)

Spec == Init /\ [][Next]_vars

----------------------------------------------------------------------------
\* What the pages show

\* Results: if (!state) { navigate('/extract'); return null; } and otherwise
\* the status card, the count and the list.
ResultsContentRendered == route = "/results" /\ navState # << >>

\* <Badge> shows FAILED unless status === 'success'
FailedIndicatorShown ==
    ResultsContentRendered /\ navState[1].status # "success"

\* The requests issued by the Extract form that is displayed now.
OwnPending == {r \in pendingExtract : r.live}

\* The task that ran last was the resumption of handleSubmit / handleDownload.
SubmitSettled(ev) == ev.op \in {"extractFailed", "extractSucceeded"}
DownloadSettled(ev) == ev.op \in {"downloadFailed", "downloadSaved"}

AllFieldsFilled ==
    formData.email # "" /\ formData.password # "" /\ formData.postUrl # ""

NoEmptyFieldIssued ==
    \A r \in pendingExtract :
        r.body.email # "" /\ r.body.password # "" /\ r.body.post_url # ""

----------------------------------------------------------------------------
\* C1: at most one extraction request is in flight in every reachable
\* state, whatever the user does (editing, submitting, navigating between
\* the pages) and whenever responses arrive.
C1_AtMostOneExtractionInFlight == Cardinality(pendingExtract) <= 1

\* The guarantee the disabled submit button does give: the form on display
\* has at most one request of its own in flight.
Lemma_AtMostOneOwnRequest == Cardinality(OwnPending) <= 1

C1_TwoInFlight == Cardinality(pendingExtract) >= 2

\* C2 as stated: on the Extract view the submit control is enabled when the
\* three fields are non-empty and disabled when one is empty, and no
\* request is issued with an empty email, password or post_url.
C2_EnabledIffFieldsFilled ==
    /\ route = "/extract" => (~SubmitDisabled <=> AllFieldsFilled)
    /\ NoEmptyFieldIssued

\* C2 as amended: on the Extract view the submit control is enabled exactly
\* when the three fields are non-empty and the form is not loading; it is
\* disabled when a field is empty; no request is issued with an empty
\* email, password or post_url.
C2_EnabledIffFilledAndIdle ==
    /\ route = "/extract" => (~SubmitDisabled <=> (AllFieldsFilled /\ ~isLoading))
    /\ NoEmptyFieldIssued

C2_Witness ==
    /\ route = "/extract"
    /\ isLoading /\ AllFieldsFilled /\ SubmitDisabled
    /\ OwnPending # {}

\* The state a 2xx response to request req must lead to, written out from
\* the response itself.
ExpectedResults(req, resp) ==
    [emails |-> IF "emails" \in DOMAIN resp.body THEN resp.body.emails ELSE << >>,
     postUrl |-> req.body.post_url,
     status |-> "success"]

C4_FailureKeepsForm ==
    [][(SubmitSettled(lastEvent')
          /\ (~lastEvent'.resp[1].net \/ ~lastEvent'.resp[1].ok))
       => /\ toasts' = toasts + 1
          /\ route' = route
          /\ navState' = navState
          /\ formData' = formData
          /\ lastEvent'.req[1].live
                => /\ route' = "/extract"
                   /\ formData'.email = lastEvent'.req[1].body.email
                   /\ formData'.password = lastEvent'.req[1].body.password
                   /\ formData'.postUrl = lastEvent'.req[1].body.post_url]_vars

C4_Witness ==
    /\ lastEvent.op = "extractFailed"
    /\ lastEvent.resp[1].net /\ ~lastEvent.resp[1].ok
    /\ lastEvent.req[1].live
    /\ route = "/extract"
    /\ formData = lastEvent.req[1].closure
    /\ toasts = 1

\* C5: the Results route never stays entered without navigation state:
\* entering it without state renders nothing and redirects to Extract.
C5_ResultsWithoutStateRedirects ==
    /\ ResultsContentRendered => navState # << >>
    /\ ~(route = "/results" /\ navState = << >>)

\* C6: when a download request gets a success response, exactly one file
\* save is triggered, named emails.csv for csv and emails.txt for txt, no
\* error notification is raised, and the document holds no extra element.
C6_DownloadSaves ==
    [][(DownloadSettled(lastEvent')
          /\ lastEvent'.resp[1].net /\ lastEvent'.resp[1].ok)
       => /\ saved' = Append(saved,
                 CASE lastEvent'.req[1].format = "csv" -> "emails.csv"
                   [] lastEvent'.req[1].format = "txt" -> "emails.txt")
          /\ toasts' = toasts
          /\ docElements' = docElements
          /\ docElements' = 0]_vars

C6_Witness ==
    /\ lastEvent.op = "downloadSaved"
    /\ lastEvent.req[1].format = "txt"
    /\ Len(saved) = 2
    /\ saved[1] = "emails.csv" /\ saved[2] = "emails.txt"
    /\ docElements = 0

\* C7: when a download request fails (fetch rejects, or a non-2xx status),
\* exactly one error notification is raised, no file is saved, and the
\* route, the navigation state, the form fields, the loading flag, the
\* stored emails and the document's elements are unchanged.
C7_DownloadFailureOnlyToasts ==
    [][(DownloadSettled(lastEvent')
          /\ (~lastEvent'.resp[1].net \/ ~lastEvent'.resp[1].ok))
       => /\ toasts' = toasts + 1
          /\ saved' = saved
          /\ UNCHANGED <<route, navState, formData, isLoading, emails,
                         docElements, pendingExtract>>]_vars

C7_Witness ==
    /\ lastEvent.op = "downloadFailed"
    /\ lastEvent.resp[1].net /\ ~lastEvent.resp[1].ok
    /\ toasts = 1
    /\ saved = << >>
    /\ isLoading /\ route = "/extract"

\* C8: the download controls of the Extract view become available: once
\* handleSubmit has stored a non-empty emails list for the displayed form,
\* the Extract view is displayed with its download buttons; and the
\* download controls of Status are available whenever Status is displayed.
C8_DownloadFromBothViews ==
    /\ (lastEvent.op = "extractSucceeded" /\ lastEvent.req[1].live
          /\ "emails" \in DOMAIN lastEvent.resp[1].body
          /\ lastEvent.resp[1].body.emails # << >>)
         => DownloadControls("/extract")
    /\ route = "/status" => DownloadControls("/status")

\* What holds instead: no reachable state shows the Extract view with its
\* download buttons.
Lemma_ExtractDownloadNeverAvailable == ~DownloadControls("/extract")

\* C9: navigation state held by Results always has status 'success'; the
\* FAILED indicator is never shown.
C9_StatusAlwaysSuccess ==
    /\ navState # << >> => navState[1].status = "success"
    /\ ~FailedIndicatorShown

C9_Witness ==
    /\ ResultsContentRendered
    /\ navState[1].emails = << >>
    /\ navState[1].status = "success"
    /\ lastEvent.op = "extractSucceeded"

\* C10: on the displayed Extract form the loading flag is true exactly
\* while a request issued from that form is in flight, the inputs and the
\* submit control being disabled then; right after that request's response
\* was handled the flag is false.
C10_LoadingTracksRequest ==
    /\ route = "/extract" =>
          /\ isLoading <=> OwnPending # {}
          /\ isLoading => InputsDisabled /\ SubmitDisabled
    /\ route # "/extract" => OwnPending = {}
    /\ (SubmitSettled(lastEvent) /\ lastEvent.req[1].live) => ~isLoading

C10_Witness ==
    /\ lastEvent.op = "extractFailed"
    /\ lastEvent.req[1].live
    /\ route = "/extract"
    /\ ~isLoading
    /\ pendingExtract # {}

====
